---- MODULE Spec2Model ----
(***************************************************************************)
(* Model of redis-graphite.py: the main() loop that samples redis servers  *)
(* and publishes the samples to a carbon (graphite) server.                *)
(*                                                                         *)
(* The program is sequential; pc is the position of that single thread of  *)
(* control.  The environment (carbon connect/sendall outcomes, redis       *)
(* info()/llen() outcomes and results) is chosen with \E in the actions.   *)
(***************************************************************************)
EXTENDS Integers, Sequences, FiniteSets, TLC

(* ---------------------------------------------------------------------- *)
(* Bounds of the model                                                     *)
(* ---------------------------------------------------------------------- *)
MaxPorts == 2
MaxLists == 2
MaxTicks == 2
MaxNow == 4

(* ---------------------------------------------------------------------- *)
(* Program constants                                                       *)
(* ---------------------------------------------------------------------- *)
redis_server == "localhost"
interval == 10
backoff == 2

stats_keys ==
  << [key |-> "connected_clients",           keytype |-> "int"],
     [key |-> "client_longest_output_list",  keytype |-> "int"],
     [key |-> "client_biggest_input_buf",    keytype |-> "int"],
     [key |-> "blocked_clients",             keytype |-> "int"],
     [key |-> "used_memory",                 keytype |-> "int"],
     [key |-> "used_memory_rss",             keytype |-> "int"],
     [key |-> "used_memory_peak",            keytype |-> "int"],
     [key |-> "used_memory_lua",             keytype |-> "int"],
     [key |-> "mem_fragmentation_ratio",     keytype |-> "ratio100"],
     [key |-> "rdb_bgsave_in_progress",      keytype |-> "int"],
     [key |-> "aof_rewrite_in_progress",     keytype |-> "int"],
     [key |-> "aof_base_size",               keytype |-> "int"],
     [key |-> "aof_current_size",            keytype |-> "int"],
     [key |-> "total_connections_received",  keytype |-> "int"],
     [key |-> "total_commands_processed",    keytype |-> "int"] >>

StatsKeyNames == {stats_keys[i].key : i \in 1..Len(stats_keys)}

(* ---------------------------------------------------------------------- *)
(* Inputs: arguments and environment results                               *)
(* ---------------------------------------------------------------------- *)
\* --redis-ports: one or more ports, the default being 6379 alone.
PortsOfLen(n) == [i \in 1..n |-> 6378 + i]

ListPool == <<"queue", "jobs", "mail", "log">>

\* --lists: absent (None, modelled as the empty sequence) or one or more names.
ListsOfLen(n) == SubSeq(ListPool, 1, n)

ArgsSet ==
  { [once |-> o, no_server_stats |-> s, lists |-> ListsOfLen(l),
     redis_ports |-> PortsOfLen(p)] :
      o \in BOOLEAN, s \in BOOLEAN, l \in 0..MaxLists, p \in 1..MaxPorts }

\* Values of an info() map are numbers; they are kept in hundredths, so 87
\* is 0.87 and 300 is 3.
InfoFull ==
  [k \in StatsKeyNames |-> IF k = "mem_fragmentation_ratio" THEN 87 ELSE 300]

\* A server without AOF enabled reports no aof_base_size/aof_current_size.
InfoNoAof ==
  [k \in StatsKeyNames \ {"aof_base_size", "aof_current_size"} |->
      IF k = "mem_fragmentation_ratio" THEN 129 ELSE 700]

InfoMaps == {InfoFull, InfoNoAof}

\* The length that llen returns; it has no part in the control flow.
LLenValues == {5}

(* ---------------------------------------------------------------------- *)
(* Pure functions                                                          *)
(* ---------------------------------------------------------------------- *)
Min(a, b) == IF a < b THEN a ELSE b

\* The ratios r with two decimals, 0.00 to 9.99 and given in hundredths,
\* for which float(r) * 100 computed in binary double precision lies just
\* below the whole number 100 r: 0.29 * 100 is 28.999999999999996 and
\* 1.15 * 100 is 114.99999999999999.
FloatShort ==
  { 29, 57, 58, 113, 114, 115, 116, 201, 203, 205, 207, 226, 228, 230, 232,
    251, 253, 255, 402, 406, 410, 414, 427, 431, 435, 439, 452, 456, 460,
    464, 477, 481, 485, 489, 502, 506, 510, 803, 804, 812, 820, 828, 829,
    837, 845, 853, 854, 862, 870, 878, 879, 887, 895, 903, 904, 912, 920,
    928, 929, 937, 945, 953, 954, 962, 970, 978, 979, 987, 995 }

\* keytype(info[key]): int(x) truncates; int(float(x) * 100) scales the
\* ratio in double precision and truncates the product, which for the
\* ratios of FloatShort is one less than the exact product.
\* The values of these keys are numbers, on which neither conversion raises.
keytype(kt, raw) ==
  IF kt = "int" THEN raw \div 100
  ELSE IF raw \in FloatShort THEN raw - 1 ELSE raw

\* Text is a sequence of symbols: the space and the newline, the decimal
\* digits and the minus sign, and words, which are pieces of text with no
\* space and no newline in them.
Digits == <<"0", "1", "2", "3", "4", "5", "6", "7", "8", "9">>

RECURSIVE NatStr(_)
NatStr(n) ==
  IF n < 10 THEN <<Digits[n + 1]>>
  ELSE NatStr(n \div 10) \o <<Digits[(n % 10) + 1]>>

\* The text "{}".format(n) of an integer n.
IntStr(n) == IF n < 0 THEN <<"-">> \o NatStr(-n) ELSE NatStr(n)

\* "redis.{}:{}.".format(args.redis_server, redis_port)
base_key(redis_port) ==
  <<"redis.", redis_server, ":">> \o IntStr(redis_port) \o <<".">>

\* lists_key = base_key + "list."
lists_key(redis_port) == base_key(redis_port) \o <<"list.">>

\* Mutant of FormatCmd: the value is put ahead of the path.
FormatCmd_ValueFirst(path, value, ts) ==
  IntStr(value) \o <<" ">> \o path \o <<" ">> \o IntStr(ts) \o <<"\n">>

\* "{} {} {}\n".format(path, value, int(time.time()))
FormatCmd(path, value, ts) ==
  path \o <<" ">> \o IntStr(value) \o <<" ">> \o IntStr(ts) \o <<"\n">>

(* ---------------------------------------------------------------------- *)
(* State                                                                   *)
(* ---------------------------------------------------------------------- *)
VARIABLES
  args,       \* parsed command line
  pc,         \* position of the program
  sock,       \* the carbon socket held in the variable sock
  port_idx,   \* position of the for loop over args.redis_ports
  key_idx,    \* position of the for loop over stats_keys or args.lists
  info,       \* the info map of the current target
  now,        \* int(time.time()); it advances in the sleeps, up to MaxNow
  sent,       \* lines handed to sock.sendall with success in this pass
  fetched,    \* outcome of the info fetch of each target in this pass
  passes,     \* number of passes over the targets started so far
  lastQuery,  \* outcome of the latest redis query of this pass
  live,       \* number of carbon connections made and not yet given up
  closeErr,   \* the latest sock.close() raised, no connect tried since
  enc         \* a pure function under test: its input and its result

vars == <<args, pc, sock, port_idx, key_idx, info, now, sent, fetched,
          passes, lastQuery, live, closeErr, enc>>

\* The value of enc while the main loop runs.
NoEnc == [op |-> "none", in |-> << >>, out |-> << >>]

NoInfo == [k \in {} |-> 0]

NumPorts == Len(args.redis_ports)

Pending == [status |-> "pending", info |-> NoInfo]

NoneFetched == [i \in 1..NumPorts |-> Pending]

Init ==
  /\ args \in ArgsSet
  /\ pc = "connect"
  /\ sock = "none"
  /\ port_idx = 1
  /\ key_idx = 1
  /\ info = NoInfo
  /\ now = 0
  /\ sent = << >>
  /\ fetched = NoneFetched
  /\ passes = 0
  /\ lastQuery = "none"
  /\ live = 0
  /\ closeErr = FALSE
  /\ enc = NoEnc

(* ---------------------------------------------------------------------- *)
(* Helpers of the actions                                                  *)
(* ---------------------------------------------------------------------- *)
redis_port == args.redis_ports[port_idx]

\* One entry of sent: the line given to sendall, and where it came from.
Line(kind, key, value) ==
  [port_idx |-> port_idx, kind |-> kind, key |-> key, value |-> value,
   path |-> base_key(redis_port) \o <<key>>,
   cmd |-> FormatCmd(base_key(redis_port) \o <<key>>, value, now)]

\* The top of the inner "while True": the for loop over the ports starts.
StartPass ==
  /\ pc' = "for_port"
  /\ port_idx' = 1
  /\ key_idx' = 1
  /\ sent' = << >>
  /\ fetched' = NoneFetched
  /\ lastQuery' = "none"
  /\ passes' = Min(passes + 1, MaxTicks)

\* "continue" of the for loop over the ports: on to the next port.
NextPort ==
  /\ pc' = "for_port"
  /\ port_idx' = port_idx + 1

\* Mutant of SendFailed: the break out of the inner while is missing, so the
\* else clause of the port loop is skipped but the pass is slept off.
SendFailed_NoOuterBreak ==
  /\ sock' = "broken"
  /\ pc' = "sleep"

\* A failed sendall: break out of the key loop, of the port loop and of the
\* inner while, down to the close of the socket.
SendFailed ==
  /\ sock' = "broken"
  /\ pc' = "close"

(* ---------------------------------------------------------------------- *)
(* Actions                                                                 *)
(* ---------------------------------------------------------------------- *)
\* Mutant of ConnectOk: after a failed send and the close, the pass is
\* taken up again at the sample whose send failed.
ConnectOk_Resume ==
  /\ pc = "connect"
  /\ sock' = "open"
  /\ IF sock = "closed"
       THEN /\ pc' = IF ~args.no_server_stats THEN "stats" ELSE "lists"
            /\ UNCHANGED <<port_idx, key_idx, sent, fetched, lastQuery,
                           passes>>
       ELSE StartPass
  /\ live' = live + 1
  /\ closeErr' = FALSE
  /\ UNCHANGED <<args, enc, info, now>>

\* sock = socket.socket(); sock.connect(...) succeeds.
ConnectOk ==
  /\ pc = "connect"
  /\ sock' = "open"
  /\ StartPass
  /\ live' = live + 1
  /\ closeErr' = FALSE
  /\ UNCHANGED <<args, enc, info, now>>

\* Mutant of ConnectFail: the exception of connect is not caught.
ConnectFail_Uncaught ==
  /\ pc = "connect"
  /\ sock' = "unconnected"
  /\ pc' = "crashed"
  /\ closeErr' = FALSE
  /\ UNCHANGED live
  /\ UNCHANGED <<args, enc, port_idx, key_idx, info, now, sent, fetched, passes,
                 lastQuery>>

\* sock.connect(...) raises: log, then on to the sleep of two seconds.
ConnectFail ==
  /\ pc = "connect"
  /\ sock' = "unconnected"
  /\ pc' = "backoff"
  /\ closeErr' = FALSE
  /\ UNCHANGED live
  /\ UNCHANGED <<args, enc, port_idx, key_idx, info, now, sent, fetched, passes,
                 lastQuery>>

\* Mutant of BackoffSleep: the continue after the sleep is missing, so the
\* polling starts on the socket that did not connect.
BackoffSleep_NoContinue ==
  /\ pc = "backoff"
  /\ now' = Min(now + backoff, MaxNow)
  /\ StartPass
  /\ UNCHANGED <<args, live, closeErr, enc, sock, info>>

\* time.sleep(2); continue
BackoffSleep ==
  /\ pc = "backoff"
  /\ now' = Min(now + backoff, MaxNow)
  /\ pc' = "connect"
  /\ UNCHANGED <<args, live, closeErr, enc, sock, port_idx, key_idx, info, sent, fetched, passes,
                 lastQuery>>

\* Redis(...).info() returns a map; the branch to run is chosen.
FetchInfoOk ==
  /\ pc = "for_port"
  /\ port_idx <= NumPorts
  /\ \E m \in InfoMaps :
       /\ info' = m
       /\ fetched' = [fetched EXCEPT ![port_idx] = [status |-> "ok", info |-> m]]
  /\ lastQuery' = "info_ok"
  /\ key_idx' = 1
  /\ IF ~args.no_server_stats
       THEN pc' = "stats" /\ port_idx' = port_idx
       ELSE IF args.lists # << >>
              THEN pc' = "lists" /\ port_idx' = port_idx
              ELSE NextPort
  /\ UNCHANGED <<args, live, closeErr, enc, sock, now, sent, passes>>

\* Mutant of FetchInfoFail: the continue of the except clause is missing, so
\* the turn goes on with the info map of an earlier target.
FetchInfoFail_NoContinue ==
  /\ pc = "for_port"
  /\ port_idx <= NumPorts
  /\ fetched' = [fetched EXCEPT ![port_idx] =
                    [status |-> "unreachable", info |-> NoInfo]]
  /\ lastQuery' = "info_fail"
  /\ key_idx' = 1
  /\ pc' = IF ~args.no_server_stats THEN "stats"
           ELSE IF args.lists # << >> THEN "lists" ELSE "for_port"
  /\ port_idx' = IF ~args.no_server_stats \/ args.lists # << >>
                 THEN port_idx ELSE port_idx + 1
  /\ UNCHANGED <<args, live, closeErr, enc, sock, info, now, sent, passes>>

\* Redis(...) or info() raises: log and continue with the next port.
FetchInfoFail ==
  /\ pc = "for_port"
  /\ port_idx <= NumPorts
  /\ fetched' = [fetched EXCEPT ![port_idx] =
                    [status |-> "unreachable", info |-> NoInfo]]
  /\ lastQuery' = "info_fail"
  /\ NextPort
  /\ UNCHANGED <<args, live, closeErr, enc, sock, key_idx, info, now, sent, passes>>

\* Mutant of StatsMissing: the test "key not in info" is missing, so
\* info[key] raises a KeyError that nothing catches.
StatsMissing_KeyError ==
  /\ pc = "stats"
  /\ key_idx <= Len(stats_keys)
  /\ stats_keys[key_idx].key \notin DOMAIN info
  /\ pc' = "crashed"
  /\ UNCHANGED <<args, live, closeErr, enc, sock, port_idx, key_idx, info, now, sent, fetched,
                 passes, lastQuery>>

\* key not in info: warn and continue with the next key.
StatsMissing ==
  /\ pc = "stats"
  /\ key_idx <= Len(stats_keys)
  /\ stats_keys[key_idx].key \notin DOMAIN info
  /\ key_idx' = key_idx + 1
  /\ UNCHANGED <<args, live, closeErr, enc, pc, sock, port_idx, info, now, sent, fetched, passes,
                 lastQuery>>

\* Mutant of StatsSendOk: the table is walked from its end, as an unordered
\* container might be.
StatsSendOk_Reversed ==
  /\ pc = "stats"
  /\ key_idx <= Len(stats_keys)
  /\ stats_keys[key_idx].key \in DOMAIN info
  /\ stats_keys[Len(stats_keys) + 1 - key_idx].key \in DOMAIN info
  /\ LET e     == stats_keys[Len(stats_keys) + 1 - key_idx]
         value == keytype(e.keytype, info[e.key])
     IN  sent' = Append(sent, Line("stat", e.key, value))
  /\ key_idx' = key_idx + 1
  /\ UNCHANGED <<args, live, closeErr, enc, pc, sock, port_idx, info, now, fetched, passes,
                 lastQuery>>

\* The key is in info and sendall succeeds.
StatsSendOk ==
  /\ pc = "stats"
  /\ key_idx <= Len(stats_keys)
  /\ stats_keys[key_idx].key \in DOMAIN info
  /\ LET key   == stats_keys[key_idx].key
         value == keytype(stats_keys[key_idx].keytype, info[key])
     IN  sent' = Append(sent, Line("stat", key, value))
  /\ key_idx' = key_idx + 1
  /\ UNCHANGED <<args, live, closeErr, enc, pc, sock, port_idx, info, now, fetched, passes,
                 lastQuery>>

\* The key is in info and sendall raises.
StatsSendFail ==
  /\ pc = "stats"
  /\ key_idx <= Len(stats_keys)
  /\ stats_keys[key_idx].key \in DOMAIN info
  /\ SendFailed
  /\ UNCHANGED <<args, live, closeErr, enc, port_idx, key_idx, info, now, sent, fetched, passes,
                 lastQuery>>

\* Mutant of StatsDone: the else clause does not continue the port loop, so
\* the turn falls through to the lists.
StatsDone_FallThrough ==
  /\ pc = "stats"
  /\ key_idx > Len(stats_keys)
  /\ IF args.lists # << >>
       THEN pc' = "lists" /\ key_idx' = 1 /\ port_idx' = port_idx
       ELSE NextPort /\ key_idx' = key_idx
  /\ UNCHANGED <<args, live, closeErr, enc, sock, info, now, sent, fetched, passes, lastQuery>>

\* The loop over stats_keys ran to its end: its else clause continues the
\* loop over the ports.
StatsDone ==
  /\ pc = "stats"
  /\ key_idx > Len(stats_keys)
  /\ NextPort
  /\ UNCHANGED <<args, live, closeErr, enc, sock, key_idx, info, now, sent, fetched, passes,
                 lastQuery>>

\* client.llen(key) returns and sendall succeeds.
ListsSendOk ==
  /\ pc = "lists"
  /\ key_idx <= Len(args.lists)
  /\ \E length \in LLenValues :
       sent' = Append(sent, Line("list", args.lists[key_idx], length))
  /\ lastQuery' = "llen_ok"
  /\ key_idx' = key_idx + 1
  /\ UNCHANGED <<args, live, closeErr, enc, pc, sock, port_idx, info, now, fetched, passes>>

\* client.llen(key) returns and sendall raises.
ListsSendFail ==
  /\ pc = "lists"
  /\ key_idx <= Len(args.lists)
  /\ lastQuery' = "llen_ok"
  /\ SendFailed
  /\ UNCHANGED <<args, live, closeErr, enc, port_idx, key_idx, info, now, sent, fetched, passes>>

\* client.llen(key) raises: nothing catches it, main() is left.
ListsLlenFail ==
  /\ pc = "lists"
  /\ key_idx <= Len(args.lists)
  /\ lastQuery' = "llen_fail"
  /\ pc' = "crashed"
  /\ UNCHANGED <<args, live, closeErr, enc, sock, port_idx, key_idx, info, now, sent, fetched,
                 passes>>

\* The loop over args.lists ran to its end: its else clause continues the
\* loop over the ports.
ListsDone ==
  /\ pc = "lists"
  /\ key_idx > Len(args.lists)
  /\ NextPort
  /\ UNCHANGED <<args, live, closeErr, enc, sock, key_idx, info, now, sent, fetched, passes,
                 lastQuery>>

\* The loop over the ports ran to its end: its else clause.
ForElse ==
  /\ pc = "for_port"
  /\ port_idx > NumPorts
  /\ pc' = "sleep"
  /\ UNCHANGED <<args, live, closeErr, enc, sock, port_idx, key_idx, info, now, sent, fetched,
                 passes, lastQuery>>

\* Mutant of IntervalSleep: break instead of continue after the sleep, so
\* every pass closes the socket and connects again.
IntervalSleep_Break ==
  /\ pc = "sleep"
  /\ now' = Min(now + interval, MaxNow)
  /\ pc' = "close"
  /\ UNCHANGED <<args, live, closeErr, enc, sock, port_idx, key_idx, info, sent, fetched, passes,
                 lastQuery>>

\* time.sleep(args.interval); continue: the next pass on the same socket.
IntervalSleep ==
  /\ pc = "sleep"
  /\ now' = Min(now + interval, MaxNow)
  /\ StartPass
  /\ UNCHANGED <<args, live, closeErr, enc, sock, info>>

\* Mutant of Close: the backoff sleep is taken after the close as well.
Close_ThenBackoff ==
  /\ pc = "close"
  /\ sock' = "closed"
  /\ pc' = "backoff"
  /\ live' = IF sock \in {"open", "broken"} THEN live - 1 ELSE live
  /\ closeErr' = FALSE
  /\ UNCHANGED <<args, enc, port_idx, key_idx, info, now, sent, fetched, passes,
                 lastQuery>>

\* Mutant of Close: the socket is not closed before the outer while starts
\* over, so the connection of the failed send stays.
Close_NoClose ==
  /\ pc = "close"
  /\ pc' = "connect"
  /\ closeErr' = FALSE
  /\ UNCHANGED <<args, enc, live, sock, port_idx, key_idx, info, now, sent,
                 fetched, passes, lastQuery>>

\* The break that ends the inner while, then try: sock.close() except: pass,
\* then the outer while starts over.  The statement "if args.once:
\* sys.exit()" stands behind that unconditional break, inside the inner
\* while: control never reaches it, so no action leads to pc = "exited".
Close ==
  /\ pc = "close"
  /\ sock' = "closed"
  /\ pc' = "connect"
  /\ live' = IF sock \in {"open", "broken"} THEN live - 1 ELSE live
  /\ closeErr' = FALSE
  /\ UNCHANGED <<args, enc, port_idx, key_idx, info, now, sent, fetched, passes,
                 lastQuery>>

\* Mutant of CloseRaises: the exception of sock.close() is not caught.
CloseRaises_Uncaught ==
  /\ pc = "close"
  /\ sock' = "closed"
  /\ pc' = "crashed"
  /\ live' = IF sock \in {"open", "broken"} THEN live - 1 ELSE live
  /\ closeErr' = TRUE
  /\ UNCHANGED <<args, enc, port_idx, key_idx, info, now, sent, fetched, passes,
                 lastQuery>>

\* sock.close() raises: "except: pass" swallows it and the outer while
\* starts over.  Whatever the close did, the socket object is released
\* when the next "sock = socket.socket()" rebinds the name, ahead of the
\* connect, so the connection counts as given up here as well.
CloseRaises ==
  /\ pc = "close"
  /\ sock' = "closed"
  /\ pc' = "connect"
  /\ live' = IF sock \in {"open", "broken"} THEN live - 1 ELSE live
  /\ closeErr' = TRUE
  /\ UNCHANGED <<args, enc, port_idx, key_idx, info, now, sent, fetched, passes,
                 lastQuery>>

Next ==
  \/ ConnectOk
  \/ ConnectFail
  \/ BackoffSleep
  \/ FetchInfoOk
  \/ FetchInfoFail
  \/ StatsMissing
  \/ StatsSendOk
  \/ StatsSendFail
  \/ StatsDone
  \/ ListsSendOk
  \/ ListsSendFail
  \/ ListsLlenFail
  \/ ListsDone
  \/ ForElse
  \/ IntervalSleep
  \/ Close
  \/ CloseRaises

Spec == Init /\ [][Next]_vars

\* The program always takes its next step; a carbon server that accepts
\* connections again and again lets a connect succeed in the end.
FairSpec == Spec /\ WF_vars(Next) /\ SF_vars(ConnectOk)

(* ---------------------------------------------------------------------- *)
(* The pure functions on their own: the formatting of a line and the       *)
(* conversions of the table, applied to inputs drawn from bounded sets.    *)
(* ---------------------------------------------------------------------- *)
MaxEncValue == 12
MaxEncTime == 11
MaxRaw == 130

\* Paths as the program builds them, and the path of a list whose name has
\* a space in it.
EncPaths ==
  {base_key(p) \o <<k>> : p \in {6379, 6380},
                          k \in {"used_memory", "mem_fragmentation_ratio",
                                 "queue"}}
    \cup {base_key(6379) \o <<"my", " ", "queue">>}

FormatInputs ==
  { [op |-> "format", done |-> FALSE,
     in |-> [path |-> p, value |-> v, ts |-> t], out |-> << >>] :
       p \in EncPaths, v \in (-2)..MaxEncValue, t \in 0..MaxEncTime }

KeytypeInputs ==
  { [op |-> "keytype", done |-> FALSE,
     in |-> [kt |-> k, raw |-> r], out |-> 0] :
       k \in {"int", "ratio100"}, r \in 0..MaxRaw }

PureInit ==
  /\ enc \in FormatInputs \cup KeytypeInputs
  /\ args = [once |-> FALSE, no_server_stats |-> FALSE, lists |-> << >>,
             redis_ports |-> PortsOfLen(1)]
  /\ pc = "pure"
  /\ sock = "none"
  /\ port_idx = 1
  /\ key_idx = 1
  /\ info = NoInfo
  /\ now = 0
  /\ sent = << >>
  /\ fetched = NoneFetched
  /\ passes = 0
  /\ lastQuery = "none"
  /\ live = 0
  /\ closeErr = FALSE

main == <<args, pc, sock, port_idx, key_idx, info, now, sent, fetched,
          passes, lastQuery, live, closeErr>>

\* cmd = "{} {} {}\n".format(...)
ApplyFormat ==
  /\ enc.op = "format" /\ ~enc.done
  /\ enc' = [enc EXCEPT !.done = TRUE,
                        !.out = FormatCmd(enc.in.path, enc.in.value, enc.in.ts)]
  /\ UNCHANGED main

\* value = keytype(info[key])
ApplyKeytype ==
  /\ enc.op = "keytype" /\ ~enc.done
  /\ enc' = [enc EXCEPT !.done = TRUE,
                        !.out = keytype(enc.in.kt, enc.in.raw)]
  /\ UNCHANGED main

PureNext ==
  \/ ApplyFormat
  \/ ApplyKeytype

PureSpec == PureInit /\ [][PureNext]_vars

TypeOK ==
  /\ args \in ArgsSet
  /\ pc \in {"connect", "backoff", "for_port", "stats", "lists", "sleep",
             "close", "crashed", "exited"}
  /\ sock \in {"none", "unconnected", "open", "broken", "closed"}
  /\ port_idx \in 1..(NumPorts + 1)
  /\ key_idx \in 1..(Len(stats_keys) + 1)
  /\ now \in 0..MaxNow
  /\ passes \in 0..MaxTicks
  /\ lastQuery \in {"none", "info_ok", "info_fail", "llen_ok", "llen_fail"}
  /\ live \in 0..1
  /\ closeErr \in BOOLEAN
  /\ enc = NoEnc

(* ---------------------------------------------------------------------- *)
(* Vocabulary of the properties                                            *)
(* ---------------------------------------------------------------------- *)
\* The scheduler states of the design: DISCONNECTED, CONNECTED_POLLING.
Disconnected == pc \in {"connect", "backoff", "close"}

Polling == pc \in {"for_port", "stats", "lists", "sleep"}

\* The process is gone: sys.exit() was called or an exception left main().
ProcessEnded == pc \in {"exited", "crashed"}

\* The lines of this pass that belong to the i-th target, as (kind, key).
LinesOf(i) ==
  LET own == SelectSeq(sent, LAMBDA l : l.port_idx = i)
  IN  [j \in 1..Len(own) |-> <<own[j].kind, own[j].key>>]

KindsOf(i) == {LinesOf(i)[j][1] : j \in 1..Len(LinesOf(i))}

\* The keys of the table present in the map m, in table order.
PresentKeys(m) ==
  LET present == SelectSeq(stats_keys, LAMBDA e : e.key \in DOMAIN m)
  IN  [j \in 1..Len(present) |-> <<"stat", present[j].key>>]

WatchedLists == [j \in 1..Len(args.lists) |-> <<"list", args.lists[j]>>]

\* The sample set of one turn of a reachable target whose map is m: the
\* health samples when they are enabled, else the list lengths.
SampleSet(m) ==
  IF ~args.no_server_stats THEN PresentKeys(m) ELSE WatchedLists

\* The targets whose turn of this pass is over.
TurnsDone == {i \in 1..NumPorts : i < port_idx}

(* ---------------------------------------------------------------------- *)
(* C1..C10                                                                 *)
(* ---------------------------------------------------------------------- *)

\* C1: with --once, at most one pass over the targets is ever started.
C1_OnceStartsOnePass == args.once => passes <= 1

\* C2: with --once, after the carbon connect succeeded the program
\* eventually exits.
C2_OnceTerminates == (args.once /\ Polling) ~> (pc = "exited")

\* C3: a failed send leaves the pass at once: the step of the failure goes
\* to the close of the socket without another line sent or target queried,
\* and the close is followed by the connect loop, the lines and the queried
\* targets of the pass staying as they were at the failure.
C3_SendFailureAbortsPass ==
  [][ /\ (sock = "open" /\ sock' = "broken")
          => (pc' = "close" /\ sent' = sent /\ fetched' = fetched)
      /\ (sock = "broken")
          => (pc = "close" /\ pc' = "connect" /\ sock' = "closed"
              /\ sent' = sent /\ fetched' = fetched)
      /\ (sock \in {"closed", "unconnected"} /\ sock' # "open")
          => (Disconnected' /\ sent' = sent /\ fetched' = fetched)
    ]_vars

\* C3 witness: the third sample of the first of two targets failed, the
\* socket was closed and the connect loop is entered again.
C3_Witness ==
  /\ pc = "connect" /\ sock = "closed"
  /\ Len(sent) = 2 /\ port_idx = 1 /\ NumPorts = 2
  /\ fetched[2].status = "pending"

\* C4: an unreachable target has no line in the pass, every reachable
\* target whose turn is over has its whole sample set sent, and while the
\* latest redis query is a failed info fetch the carbon socket stays open
\* and the pass goes on.
C4_UnreachableTargetSkipped ==
  /\ \A i \in TurnsDone :
       /\ fetched[i].status = "unreachable" => LinesOf(i) = << >>
       /\ fetched[i].status = "ok" => LinesOf(i) = SampleSet(fetched[i].info)
  /\ lastQuery = "info_fail" => (sock = "open" /\ pc \in {"for_port", "sleep"})

\* C4 witness: the first target was unreachable, the second sent its whole
\* table; the pass is over and the interval sleep comes next.
C4_Witness ==
  /\ pc = "sleep" /\ sock = "open" /\ NumPorts = 2
  /\ fetched[1].status = "unreachable"
  /\ fetched[2].status = "ok"
  /\ Len(sent) = Len(stats_keys)

\* C5: after a failed redis query, info fetch or llen alike, the target is
\* skipped: the program is at the head of the port loop (or at the interval
\* sleep after the last port) and the carbon socket is still open.
C5_StoreFailureSkipsTarget ==
  lastQuery \in {"info_fail", "llen_fail"}
     => (pc \in {"for_port", "sleep"} /\ sock = "open")

\* C6: without --once the process never ends.
C6_NeverEndsWithoutOnce == ~args.once => ~ProcessEnded

\* C7: a failed connect goes to the backoff sleep, the backoff sleep goes
\* to another connect, and with a carbon server that accepts connections
\* in the end the polling is reached.
C7_ConnectRetriedForever ==
  /\ [][ /\ (pc = "connect" /\ sock' # "open") => (pc' = "backoff" /\ sock' = "unconnected")
         /\ (pc = "backoff") => (pc' = "connect")
       ]_vars
  /\ (pc \in {"connect", "backoff"}) ~> Polling

\* C7 witness: polling reached after two failed connects and their sleeps.
C7_Witness ==
  /\ pc = "for_port" /\ sock = "open" /\ passes = 1
  /\ now >= 2 * backoff

\* C8: a pass that ran to its end is followed by the interval sleep and the
\* next pass on the same open socket; the socket leaves the open state, and
\* the close is reached, only by a failed send, and a connect is attempted
\* only at the start, after a backoff sleep or after the close.
C8_SocketReusedAcrossPasses ==
  [][ /\ (pc = "for_port" /\ port_idx > NumPorts) => (pc' = "sleep" /\ sock' = sock)
      /\ (pc = "sleep")
          => (sock = "open" /\ sock' = "open" /\ pc' = "for_port" /\ port_idx' = 1)
      /\ (sock = "open" /\ sock' # "open") => (sock' = "broken" /\ pc' = "close")
      /\ (pc' = "close" /\ pc # "close") => (sock = "open" /\ sock' = "broken")
      /\ (pc' = "connect" /\ pc # "connect") => (pc \in {"backoff", "close"})
    ]_vars

\* C8 witness: the second pass has started on the socket of the first one,
\* right after the interval sleep.
C8_Witness ==
  /\ pc = "for_port" /\ port_idx = 1 /\ sock = "open" /\ passes = 2
  /\ now = Min(interval, MaxNow)

\* C9: with lists to watch, the turn of a reachable target sends one line
\* per watched list, whether or not the health samples are enabled.
C9_ListsAlwaysSampled ==
  \A i \in TurnsDone :
    (args.lists # << >> /\ fetched[i].status = "ok")
       => SelectSeq(LinesOf(i), LAMBDA l : l[1] = "list") = WatchedLists

\* C10: no target has both health lines and list lines in one pass.
C10_BranchesExclusive ==
  \A i \in 1..NumPorts : ~({"stat", "list"} \subseteq KindsOf(i))

\* C10 witness: both features are enabled and the turn of a reachable
\* target is over with its health lines sent.
C10_Witness ==
  /\ ~args.no_server_stats /\ args.lists # << >>
  /\ 1 \in TurnsDone /\ fetched[1].status = "ok"
  /\ "stat" \in KindsOf(1)

(* ---------------------------------------------------------------------- *)
(* C11..C20                                                                *)
(* ---------------------------------------------------------------------- *)

\* C11: the path of every line of a watched list is
\* redis.<host>:<port>.list.<name>, the path of every health line is
\* redis.<host>:<port>.<key>.
C11_PathsOfLines ==
  \A j \in 1..Len(sent) :
    LET l    == sent[j]
        port == args.redis_ports[l.port_idx]
    IN  l.path = IF l.kind = "list"
                   THEN lists_key(port) \o <<l.key>>
                   ELSE base_key(port) \o <<l.key>>

\* C12: a key of the table that is absent from the info map is skipped and
\* nothing else: the step goes on to the next key with the socket open and
\* nothing sent, and a finished turn of a reachable target has one line
\* for each key of the table that its map has, so one line fewer than the
\* table for each missing key, whatever the maps of the other targets.
C12_MissingKeySkipped ==
  /\ [](\A i \in TurnsDone :
          (fetched[i].status = "ok" /\ ~args.no_server_stats)
            => /\ Len(LinesOf(i)) = Len(stats_keys)
                    - Cardinality(StatsKeyNames \ DOMAIN fetched[i].info)
               /\ {LinesOf(i)[j][2] : j \in 1..Len(LinesOf(i))}
                    = StatsKeyNames \cap DOMAIN fetched[i].info)
  /\ [][ (/\ pc = "stats"
          /\ key_idx <= Len(stats_keys)
          /\ stats_keys[key_idx].key \notin DOMAIN info)
         => (/\ pc' = "stats" /\ key_idx' = key_idx + 1
             /\ port_idx' = port_idx /\ sent' = sent
             /\ sock = "open" /\ sock' = "open")
       ]_vars

\* C12 witness: the first target lacks the two AOF keys and sent thirteen
\* lines, the second target then sent the whole table on the same socket.
C12_Witness ==
  /\ pc = "sleep" /\ sock = "open" /\ NumPorts = 2
  /\ fetched[1].status = "ok" /\ fetched[1].info = InfoNoAof
  /\ fetched[2].status = "ok" /\ fetched[2].info = InfoFull
  /\ Len(LinesOf(1)) = Len(stats_keys) - 2
  /\ Len(LinesOf(2)) = Len(stats_keys)

\* The place of a line in the loop that sent it: the index of its key in
\* the table, or of its name among the watched lists.
PosOf(l) ==
  IF l.kind = "stat"
    THEN CHOOSE i \in 1..Len(stats_keys) : stats_keys[i].key = l.key
    ELSE CHOOSE i \in 1..Len(args.lists) : args.lists[i] = l.key

\* C13: the lines of a pass follow the order of the targets and, within a
\* target, the order of the table (or of the watched lists); with target
\* 1 unreachable and target 2 reporting every key, a finished pass with
\* health sampling has sent exactly the table of target 2, in table order.
C13_OrderOfLines ==
  /\ \A j, k \in 1..Len(sent) :
       j < k => \/ sent[j].port_idx < sent[k].port_idx
                \/ /\ sent[j].port_idx = sent[k].port_idx
                   /\ PosOf(sent[j]) < PosOf(sent[k])
  /\ (/\ pc = "sleep" /\ NumPorts = 2 /\ ~args.no_server_stats
      /\ fetched[1].status = "unreachable"
      /\ fetched[2].status = "ok"
      /\ DOMAIN fetched[2].info = StatsKeyNames)
     => [j \in 1..Len(sent) |-> <<sent[j].port_idx, sent[j].kind, sent[j].key>>]
          = [j \in 1..Len(stats_keys) |-> <<2, "stat", stats_keys[j].key>>]

\* C13 witness: target 1 unreachable, target 2 with the whole table sent.
C13_Witness ==
  /\ pc = "sleep" /\ NumPorts = 2 /\ ~args.no_server_stats
  /\ fetched[1].status = "unreachable"
  /\ fetched[2].status = "ok" /\ fetched[2].info = InfoFull
  /\ Len(sent) = Len(stats_keys)
  /\ sent[1].key = "connected_clients"
  /\ sent[Len(stats_keys)].key = "total_commands_processed"

\* C14: nothing is sent twice and nothing is queued.  Within a pass no two
\* lines have the same target and key, and the value of every health line
\* comes from the info map fetched in this pass.  A step that changes the
\* lines sent either starts a pass with no line, at the first target and
\* with no target fetched, or adds the one line of the current place of
\* the loops and moves on to the next key.  A connect that succeeds starts
\* such a pass, also after a failed send.
C14_NoRetryNoBuffer ==
  /\ [](\A j, k \in 1..Len(sent) :
          j # k => <<sent[j].port_idx, sent[j].kind, sent[j].key>>
                     # <<sent[k].port_idx, sent[k].kind, sent[k].key>>)
  /\ [](\A j \in 1..Len(sent) :
          sent[j].kind = "stat"
            => /\ fetched[sent[j].port_idx].status = "ok"
               /\ sent[j].key \in DOMAIN fetched[sent[j].port_idx].info
               /\ sent[j].value =
                    keytype(stats_keys[PosOf(sent[j])].keytype,
                            fetched[sent[j].port_idx].info[sent[j].key]))
  /\ [][ /\ (sent' # sent)
            => \/ /\ sent' = << >> /\ pc' = "for_port" /\ port_idx' = 1
                  /\ fetched' = NoneFetched
               \/ /\ sock = "open"
                  /\ Len(sent') = Len(sent) + 1
                  /\ SubSeq(sent', 1, Len(sent)) = sent
                  /\ sent'[Len(sent')].port_idx = port_idx
                  /\ PosOf(sent'[Len(sent')]) = key_idx
                  /\ key_idx' = key_idx + 1
         /\ (sock # "open" /\ sock' = "open")
            => /\ sent' = << >> /\ pc' = "for_port" /\ port_idx' = 1
               /\ fetched' = NoneFetched
       ]_vars

\* C14 witness: a second pass that no sleep precedes, so one that follows a
\* failed send, has sent the first sample of the first target anew.
C14_Witness ==
  /\ passes = 2 /\ now = 0 /\ sock = "open"
  /\ port_idx = 1 /\ key_idx = 2 /\ Len(sent) = 1
  /\ sent[1].port_idx = 1 /\ PosOf(sent[1]) = 1

\* C15: never more than one carbon connection is held; when a connect is
\* attempted none is held, the one of a failed send having been closed;
\* a line is sent, and the loops that send run, only on an open socket,
\* and a socket on which a send failed is only closed.
C15_OneLiveConnection ==
  /\ [](live <= 1)
  /\ [](pc = "connect" => live = 0)
  /\ [](pc \in {"for_port", "stats", "lists", "sleep"} => sock = "open")
  /\ [][ /\ (Len(sent') > Len(sent)) => (sock = "open" /\ sock' = "open")
         /\ (sock = "broken")
              => (pc = "close" /\ sock' = "closed" /\ sent' = sent
                  /\ live = 1 /\ live' = 0)
       ]_vars

\* C15 witness: a second connection is held alone, made right after the
\* close that followed a failed send.
C15_Witness ==
  /\ pc = "for_port" /\ port_idx = 1 /\ sock = "open" /\ live = 1
  /\ passes = 2 /\ now = 0

\* C16: an exception of sock.close() is swallowed: right after it the
\* program is at the connect of the outer while, not ended, and its next
\* step is a connect attempt, which succeeds or goes to the backoff sleep.
C16_CloseErrorSwallowed ==
  /\ [](closeErr => (pc = "connect" /\ sock = "closed" /\ ~ProcessEnded))
  /\ [][ /\ (pc = "close") => (pc' = "connect")
         /\ closeErr => (pc' \in {"for_port", "backoff"}
                         /\ sock' \in {"open", "unconnected"})
       ]_vars

\* C16 witness: sock.close() has raised after a failed send and the
\* program stands at the connect.
C16_Witness ==
  /\ closeErr /\ pc = "connect" /\ sock = "closed" /\ passes >= 1

\* line.split(" "): the fields between the spaces.
RECURSIVE SplitOnSpace(_)
SplitOnSpace(s) ==
  IF s = << >> THEN << << >> >>
  ELSE LET rest == SplitOnSpace(Tail(s))
       IN  IF Head(s) = " "
             THEN << << >> >> \o rest
             ELSE << <<Head(s)>> \o Head(rest) >> \o Tail(rest)

DigitVal(c) == CHOOSE d \in 0..9 : Digits[d + 1] = c

RECURSIVE ParseNat(_)
ParseNat(s) ==
  IF Len(s) = 1 THEN DigitVal(s[1])
  ELSE 10 * ParseNat(SubSeq(s, 1, Len(s) - 1)) + DigitVal(s[Len(s)])

\* int(text) of a decimal number with an optional minus sign.
ParseInt(s) == IF Head(s) = "-" THEN 0 - ParseNat(Tail(s)) ELSE ParseNat(s)

HasSpace(path) == \E j \in 1..Len(path) : path[j] \in {" ", "\n"}

\* C17: for a path without a space, the formatted line ends with its one
\* newline, what stands before the newline splits on the spaces into three
\* fields, the first field is the path, the second reads back as the value
\* and the third as the timestamp.
C17_LineFormatRoundTrip ==
  (enc.op = "format" /\ enc.done /\ ~HasSpace(enc.in.path))
    => LET line   == enc.out
           front  == SubSeq(line, 1, Len(line) - 1)
           fields == SplitOnSpace(front)
       IN  /\ line[Len(line)] = "\n"
           /\ \A j \in 1..Len(front) : front[j] # "\n"
           /\ Len(fields) = 3
           /\ fields[1] = enc.in.path
           /\ ParseInt(fields[2]) = enc.in.value
           /\ ParseInt(fields[3]) = enc.in.ts

\* C17 witness: a health path with a two-digit value and timestamp was
\* formatted.
C17_Witness ==
  /\ enc.op = "format" /\ enc.done
  /\ enc.in.path = base_key(6379) \o <<"used_memory">>
  /\ enc.in.value = 12 /\ enc.in.ts = 10
  /\ Len(enc.out) = Len(enc.in.path) + 7

\* C18: the value sent for mem_fragmentation_ratio is the ratio times 100,
\* truncated (so 87 for 0.87); for every other key it is the integer part
\* of the field.  Ratios are held in hundredths, so the exact product of
\* the ratio and 100 is the held number itself.
C18_RatioTimes100 ==
  (enc.op = "keytype" /\ enc.done)
    => enc.out = IF enc.in.kt = "ratio100" THEN enc.in.raw
                 ELSE enc.in.raw \div 100

\* C19: redis is queried only over an established carbon connection: the
\* loops that query run on an open socket only, and while the program is
\* at the connect, the backoff sleep or the close no target is fetched and
\* no query outcome is recorded.
C19_QueriesOnlyWhenConnected ==
  /\ [](pc \in {"for_port", "stats", "lists"} => (sock = "open" /\ live = 1))
  /\ [](Disconnected => sock # "open")
  /\ [][ /\ (fetched' # fetched /\ fetched' # NoneFetched)
              => (pc = "for_port" /\ sock = "open")
         /\ (lastQuery' # lastQuery /\ lastQuery' # "none")
              => (pc \in {"for_port", "lists"} /\ sock = "open")
         /\ (Disconnected /\ Disconnected')
              => (fetched' = fetched /\ lastQuery' = lastQuery /\ sent' = sent)
       ]_vars

\* C19 witness: after a pass that a failed send ended, two connects have
\* failed; what was fetched is still what the ended pass had fetched.
C19_Witness ==
  /\ pc = "connect" /\ sock = "unconnected" /\ passes = 1
  /\ now = 2 * backoff /\ lastQuery = "info_ok"
  /\ fetched[1].status = "ok"

\* C20: the close after a failed send is followed by the connect attempt
\* with no sleep between them: the clock stands still from the failure to
\* the outcome of that connect.  The backoff sleep is reached only with a
\* socket whose connect failed, the interval sleep only with an open
\* socket and the port loop run to its end, and the clock moves in those
\* two sleeps only.
C20_NoSleepAfterSendFailure ==
  /\ [](pc = "backoff" => sock = "unconnected")
  /\ [](pc = "sleep" => (sock = "open" /\ port_idx > NumPorts))
  /\ [][ /\ (sock = "broken") => (pc' = "connect" /\ now' = now)
         /\ (pc = "connect" /\ sock = "closed")
              => (now' = now /\ pc' \in {"for_port", "backoff"})
         /\ (now' # now) => (pc \in {"backoff", "sleep"})
       ]_vars

\* C20 witness: a second send has failed with the clock still at its
\* start: connect, sample, fail, close, connect, sample, fail, no sleep.
C20_Witness ==
  /\ pc = "close" /\ sock = "broken" /\ passes = 2 /\ now = 0

====
